---- MODULE Spec2Model ----
(***************************************************************************)
(* Model of src/main.py: the /media websocket handler websocket_endpoint   *)
(* that buffers the inbound and the outbound audio track of a call, mixes  *)
(* them into stereo segments and sends them to a Deepgram live             *)
(* transcription socket.                                                   *)
(***************************************************************************)
EXTENDS Integers, Sequences, FiniteSets

VARIABLES
    pc,               \* "running": inside `while True`; "done": after `finally`
    deepgram_socket,  \* None, or the id of the connection the handler holds
    in_buffer,        \* bytearray of the inbound track
    out_buffer,       \* bytearray of the outbound track
    opened,           \* number of Deepgram connections opened so far
    sent,             \* every deepgram_socket.send, in order: [conn, data]
    ws_closed,        \* number of websocket.close calls
    fault,            \* which statement raised ("none" when nothing raised)
    event,            \* data.get('event') of the message received last
    msgs,             \* number of messages received
    unread,           \* messages that arrived after the handler returned
    in_total,         \* bytes the caller has streamed on the inbound track
    out_total,        \* bytes the caller has streamed on the outbound track
    mono_in,          \* first operand of the mixing step checked alone
    mono_out,         \* second operand of the mixing step checked alone
    mixed,            \* result of the mixing step checked alone
    mix_pc,           \* "input" before, "mixed" after the mixing step
    call_sid,         \* ActiveCall.sid of the call whose transcripts are logged
    dg_data,          \* the result payload handed to ActiveCall.get_transcript
    log_lines,        \* the lines get_transcript has logged: <<sid, transcript>>
    tr_pc,            \* "input" before get_transcript, then how it ended
    peer              \* the locals of a second websocket_endpoint running at the same time

vars == <<pc, deepgram_socket, in_buffer, out_buffer, opened, sent, ws_closed,
          fault, event, msgs, unread, in_total, out_total,
          mono_in, mono_out, mixed, mix_pc,
          call_sid, dg_data, log_lines, tr_pc, peer>>

handler_vars == <<pc, deepgram_socket, in_buffer, out_buffer, opened, sent,
                  ws_closed, fault, event, msgs, unread, in_total, out_total>>

mix_vars == <<mono_in, mono_out, mixed, mix_pc>>

tr_vars == <<call_sid, dg_data, log_lines, tr_pc>>

\* what no step of websocket_endpoint touches
side_vars == <<mix_vars, tr_vars, peer>>

-----------------------------------------------------------------------------
(* Bounds of the model *)

MaxMsgs == 4          \* messages received by one handler
MaxConns == 2         \* Deepgram connections one handler may open
MaxUnread == 1        \* messages left unread after the handler returned
MaxMixLen == 3        \* operand length of the mixing step checked alone
MaxAlternatives == 2  \* alternatives in a transcript result

ChunkLens == {1000, 3200, 6400}   \* decoded payload sizes of media messages
OtherLen == 160                   \* payload size of a media message of a third track
ByteSamples == {0, 1, 255}        \* byte values of the mixing step checked alone

-----------------------------------------------------------------------------
(* Values *)

None == 0

buffer_size == 20 * 160

Pad == 64    \* the '=' of base64; 0..63 are the alphabet

Sids == {"None", "", "CA1"}     \* callSid absent, empty, present

-----------------------------------------------------------------------------
(* The caller's audio: what SignalWire streams on each track.  Every byte  *)
(* depends on its position in the track, so that a byte that is moved,     *)
(* dropped or repeated shows.                                              *)

MaxStream == MaxMsgs * 6400

InboundAudio == [i \in 1..MaxStream |-> (i * 7 + i \div 256) % 256]

OutboundAudio == [i \in 1..MaxStream |-> (i * 11 + i \div 256 + 128) % 256]

Audio(track, off, len) ==
    IF track = "inbound" THEN SubSeq(InboundAudio, off + 1, off + len)
    ELSE IF track = "outbound" THEN SubSeq(OutboundAudio, off + 1, off + len)
    ELSE SubSeq(InboundAudio, 1, len)

(* base64 as the sender applies it: 3 bytes to 4 characters, '=' padded *)
B64Encode(b) ==
    LET n == Len(b)
        At(i) == IF i <= n THEN b[i] ELSE 0
    IN <<>> \o [k \in 1..(4 * ((n + 2) \div 3)) |->
          LET g == (k - 1) \div 4
              r == (k - 1) % 4
          IN IF r = 0 THEN At(3*g + 1) \div 4
             ELSE IF r = 1 THEN (At(3*g + 1) % 4) * 16 + At(3*g + 2) \div 16
             ELSE IF r = 2 THEN (IF 3*g + 2 > n THEN Pad
                                 ELSE (At(3*g + 2) % 16) * 4 + At(3*g + 3) \div 64)
             ELSE (IF 3*g + 3 > n THEN Pad ELSE At(3*g + 3) % 64)]

BadPayload == <<0>>     \* "A": one data character, not decodable

-----------------------------------------------------------------------------
(* base64.b64decode *)

B64Valid(text) == Len(text) % 4 = 0

B64Pads(text) ==
    IF Len(text) = 0 THEN 0
    ELSE IF text[Len(text)] # Pad THEN 0
    ELSE IF text[Len(text) - 1] # Pad THEN 1 ELSE 2

b64decode(text) ==
    [j \in 1..(3 * (Len(text) \div 4) - B64Pads(text)) |->
        LET g == (j - 1) \div 3
            r == (j - 1) % 3
        IN IF r = 0 THEN (text[4*g + 1] * 4 + text[4*g + 2] \div 16) % 256
           ELSE IF r = 1 THEN ((text[4*g + 2] % 16) * 16 + text[4*g + 3] \div 4) % 256
           ELSE ((text[4*g + 3] % 4) * 64 + text[4*g + 4]) % 256]

-----------------------------------------------------------------------------
(* The parts of the handler's loop body *)

\* the audio the caller has streamed so far on each track, in arrival order
in_stream == SubSeq(InboundAudio, 1, in_total)

out_stream == SubSeq(OutboundAudio, 1, out_total)

\* `if sid is not None:` -- an empty callSid would count as present
Truthy_notnone(sid) == sid # "None"

\* `if sid:`
Truthy(sid) == sid \notin {"None", ""}

\* `else:` for `if track == 'inbound':` -- any track but outbound goes inbound
ToInbound_else(track) == track # "outbound"

\* `if track == 'inbound':`
ToInbound(track) == track = "inbound"

\* `if track == 'outbound':`
ToOutbound(track) == track = "outbound"

\* the payload put in front of the buffer instead of behind it
extend_front(buffer, payload) == payload \o buffer

\* bytearray.extend
extend(buffer, payload) == buffer \o payload

\* a slice one 160-byte packet short
Slice_short(buffer) == SubSeq(buffer, 1, buffer_size - 160)

\* in_buffer[:buffer_size]
Slice(buffer) == SubSeq(buffer, 1, buffer_size)

\* in_buffer[buffer_size:]
Rest(buffer) == SubSeq(buffer, buffer_size + 1, Len(buffer))

\* `>` for `>=`: a buffer of exactly buffer_size bytes does not count as full
BothFull_strict(inb, outb) == Len(inb) > buffer_size /\ Len(outb) > buffer_size

\* the condition of the flush loop
BothFull(inb, outb) == Len(inb) >= buffer_size /\ Len(outb) >= buffer_size

\* the two channels in the other order
from_mono_swapped(a, b) ==
    [i \in 1..(2 * Len(a)) |-> IF i % 2 = 1 THEN b[(i + 1) \div 2] ELSE a[i \div 2]]

\* AudioSegment.from_mono_audiosegments(...).raw_data for two mono segments
\* of sample width 1: the samples interleaved, channel 0 first
from_mono_audiosegments(a, b) ==
    [i \in 1..(2 * Len(a)) |-> IF i % 2 = 1 THEN a[(i + 1) \div 2] ELSE b[i \div 2]]

\* The flush loop.  Gives the buffers and the send log it ends with, and
\* whether deepgram_socket.send raised because deepgram_socket is None.
RECURSIVE FlushLoop(_, _, _, _)
FlushLoop(inb, outb, socket, log) ==
    IF BothFull(inb, outb)
    THEN IF socket = None
         THEN [inb |-> inb, outb |-> outb, log |-> log, raised |-> TRUE]
         ELSE FlushLoop(Rest(inb), Rest(outb), socket,
                        Append(log, [conn |-> socket,
                                     data |-> from_mono_audiosegments(Slice(inb), Slice(outb))]))
    ELSE [inb |-> inb, outb |-> outb, log |-> log, raised |-> FALSE]

\* the handler returning from `except` without closing the websocket
Teardown_noclose(reason) ==
    /\ pc' = "done"
    /\ fault' = reason
    /\ ws_closed' = ws_closed

\* `except Exception` and `finally`: log, close the websocket, return
Teardown(reason) ==
    /\ pc' = "done"
    /\ fault' = reason
    /\ ws_closed' = ws_closed + 1

\* the rest of one iteration after the event was dispatched: the flush loop,
\* then back to receive, unless the send raised
AfterEvent(inb, outb, socket, log) ==
    LET r == FlushLoop(inb, outb, socket, log)
    IN /\ in_buffer' = r.inb
       /\ out_buffer' = r.outb
       /\ sent' = r.log
       /\ deepgram_socket' = socket
       /\ IF r.raised
          THEN Teardown("send")
          ELSE /\ pc' = "running"
               /\ UNCHANGED <<fault, ws_closed>>

\* websocket.receive returned a message
Received(e) ==
    /\ pc = "running"
    /\ msgs < MaxMsgs
    /\ msgs' = msgs + 1
    /\ event' = e
    /\ UNCHANGED <<unread, side_vars>>

-----------------------------------------------------------------------------
(* One action per message the handler can receive: the whole iteration of  *)
(* `while True`, from websocket.receive to the end of the flush loop, or   *)
(* to the end of `finally` when a statement raises.                        *)

\* json.loads raises on a message that is not JSON; `event` is not assigned
MalformedMessage ==
    /\ Received(event)
    /\ Teardown("json")
    /\ UNCHANGED <<deepgram_socket, in_buffer, out_buffer, opened, sent,
                   in_total, out_total>>

\* an event that is none of start, media, stop (SignalWire's "connected")
OtherEvent ==
    /\ Received("connected")
    /\ AfterEvent(in_buffer, out_buffer, deepgram_socket, sent)
    /\ UNCHANGED <<opened, in_total, out_total>>

\* event == "start"; connect_to_deepgram returns a socket or raises
StartEvent(sid) ==
    /\ Received("start")
    /\ UNCHANGED <<in_total, out_total>>
    /\ IF Truthy(sid)
       THEN /\ opened < MaxConns
            /\ \/ /\ opened' = opened + 1
                  /\ AfterEvent(in_buffer, out_buffer, opened + 1, sent)
               \/ /\ Teardown("connect")
                  /\ UNCHANGED <<deepgram_socket, in_buffer, out_buffer, opened, sent>>
       ELSE /\ AfterEvent(in_buffer, out_buffer, deepgram_socket, sent)
            /\ UNCHANGED opened

\* event == "media", with the socket the branch leaves in deepgram_socket
MediaBody(track, len, decodable, socket, nopened) ==
    LET off == IF track = "inbound" THEN in_total
               ELSE IF track = "outbound" THEN out_total ELSE 0
        audio == Audio(track, off, len)
        text == IF decodable THEN B64Encode(audio) ELSE BadPayload
    IN /\ Received("media")
       /\ opened' = nopened
       /\ IF B64Valid(text)
          THEN LET payload == b64decode(text)
               IN /\ AfterEvent(IF ToInbound(track) THEN extend(in_buffer, payload)
                                                     ELSE in_buffer,
                                IF ToOutbound(track) THEN extend(out_buffer, payload)
                                                      ELSE out_buffer,
                                socket, sent)
                  /\ in_total' = IF track = "inbound" THEN in_total + len
                                                      ELSE in_total
                  /\ out_total' = IF track = "outbound" THEN out_total + len
                                                        ELSE out_total
          ELSE /\ Teardown("b64decode")
               /\ UNCHANGED <<deepgram_socket, in_buffer, out_buffer, sent,
                              in_total, out_total>>

\* a media branch that connects when no socket is held yet
MediaEvent_connects(track, len, decodable) ==
    MediaBody(track, len, decodable,
              IF deepgram_socket = None THEN opened + 1 ELSE deepgram_socket,
              IF deepgram_socket = None THEN opened + 1 ELSE opened)

MediaEvent(track, len, decodable) ==
    MediaBody(track, len, decodable, deepgram_socket, opened)

\* the stop branch without its `break`
StopEvent_nobreak ==
    /\ Received("stop")
    /\ AfterEvent(in_buffer, out_buffer, deepgram_socket,
                  IF deepgram_socket # None
                  THEN Append(sent, [conn |-> deepgram_socket, data |-> <<>>])
                  ELSE sent)
    /\ UNCHANGED <<opened, in_total, out_total>>

\* a stop branch that mixes and sends what is left in the buffers first
StopEvent_flush ==
    /\ Received("stop")
    /\ sent' = IF deepgram_socket # None
               THEN sent \o <<[conn |-> deepgram_socket,
                               data |-> in_buffer \o out_buffer],
                              [conn |-> deepgram_socket, data |-> <<>>]>>
               ELSE sent
    /\ in_buffer' = <<>>
    /\ out_buffer' = <<>>
    /\ pc' = "done"
    /\ ws_closed' = ws_closed + 1
    /\ UNCHANGED <<fault, deepgram_socket, opened, in_total, out_total>>

\* a stop branch without `if deepgram_socket is not None`
StopEvent_noguard ==
    /\ Received("stop")
    /\ IF deepgram_socket # None
       THEN /\ sent' = Append(sent, [conn |-> deepgram_socket, data |-> <<>>])
            /\ pc' = "done"
            /\ ws_closed' = ws_closed + 1
            /\ UNCHANGED fault
       ELSE /\ Teardown("send")
            /\ UNCHANGED sent
    /\ UNCHANGED <<deepgram_socket, in_buffer, out_buffer, opened,
                   in_total, out_total>>

\* event == "stop": the terminator on the socket held, then break
StopEvent ==
    /\ Received("stop")
    /\ sent' = IF deepgram_socket # None
               THEN Append(sent, [conn |-> deepgram_socket, data |-> <<>>])
               ELSE sent
    /\ pc' = "done"
    /\ ws_closed' = ws_closed + 1
    /\ UNCHANGED <<fault, deepgram_socket, in_buffer, out_buffer, opened,
                   in_total, out_total>>

\* websocket.receive raises: the caller's side went away
ReceiveFault ==
    /\ pc = "running"
    /\ Teardown("receive")
    /\ UNCHANGED <<deepgram_socket, in_buffer, out_buffer, opened, sent, event,
                   msgs, unread, in_total, out_total, side_vars>>

\* a message arrives on the websocket after the handler returned
Arrive ==
    /\ pc = "done"
    /\ unread < MaxUnread
    /\ unread' = unread + 1
    /\ UNCHANGED <<pc, deepgram_socket, in_buffer, out_buffer, opened, sent,
                   ws_closed, fault, event, msgs, in_total, out_total, side_vars>>

\* the locals of websocket_endpoint as one value, and as they are at its start
HandlerState ==
    [pc |-> pc, deepgram_socket |-> deepgram_socket, in_buffer |-> in_buffer,
     out_buffer |-> out_buffer, opened |-> opened, sent |-> sent,
     ws_closed |-> ws_closed, fault |-> fault, event |-> event, msgs |-> msgs,
     in_total |-> in_total, out_total |-> out_total]

InitialState ==
    [pc |-> "running", deepgram_socket |-> None, in_buffer |-> <<>>,
     out_buffer |-> <<>>, opened |-> 0, sent |-> <<>>, ws_closed |-> 0,
     fault |-> "none", event |-> "none", msgs |-> 0, in_total |-> 0,
     out_total |-> 0]

HandlerInit ==
    /\ peer = InitialState
    /\ pc = "running"
    /\ deepgram_socket = None
    /\ in_buffer = <<>>
    /\ out_buffer = <<>>
    /\ opened = 0
    /\ sent = <<>>
    /\ ws_closed = 0
    /\ fault = "none"
    /\ event = "none"
    /\ msgs = 0
    /\ unread = 0
    /\ in_total = 0
    /\ out_total = 0

MixIdle ==
    /\ mono_in = <<>>
    /\ mono_out = <<>>
    /\ mixed = <<>>
    /\ mix_pc = "input"

\* no transcript result delivered
TranscriptIdle ==
    /\ call_sid = "CA1"
    /\ dg_data = [has_channel |-> FALSE, has_alternatives |-> FALSE,
                  alternatives |-> <<>>]
    /\ log_lines = <<>>
    /\ tr_pc = "input"

Init == HandlerInit /\ MixIdle /\ TranscriptIdle

Next ==
    \/ MalformedMessage
    \/ OtherEvent
    \/ \E sid \in Sids : StartEvent(sid)
    \/ \E track \in {"inbound", "outbound"}, len \in ChunkLens :
           MediaEvent(track, len, TRUE)
    \/ MediaEvent("both", OtherLen, TRUE)
    \/ MediaEvent("inbound", OtherLen, FALSE)
    \/ StopEvent
    \/ ReceiveFault
    \/ Arrive

Spec == Init /\ [][Next]_vars

-----------------------------------------------------------------------------
(* The mixing step alone, on short operands of equal length (the handler   *)
(* always mixes two slices of buffer_size bytes).                          *)

MixInit ==
    /\ HandlerInit
    /\ TranscriptIdle
    /\ \E n \in 0..MaxMixLen :
          /\ mono_in \in [1..n -> ByteSamples]
          /\ mono_out \in [1..n -> ByteSamples]
    /\ mixed = <<>>
    /\ mix_pc = "input"

MixStep ==
    /\ mix_pc = "input"
    /\ mixed' = from_mono_audiosegments(mono_in, mono_out)
    /\ mix_pc' = "mixed"
    /\ UNCHANGED <<handler_vars, mono_in, mono_out, tr_vars, peer>>

MixNext == MixStep

SpecMix == MixInit /\ [][MixNext]_vars

-----------------------------------------------------------------------------
(* Two handlers at once: Quart runs one websocket_endpoint per connection. *)
(* The first is the handler above; the second keeps its locals in `peer`   *)
(* and takes the same steps, written as a function of the locals.          *)

MaxPairMsgs == 3      \* messages each of the two handlers receives

\* the audio of the call of handler `who`: the second call's tracks carry
\* other bytes than the first call's
CallAudio(who, track, off, len) ==
    IF who = 1 THEN Audio(track, off, len)
    ELSE Audio(IF track = "inbound" THEN "outbound" ELSE "inbound", off, len)

PairMsgs ==
    {[event |-> "start", sid |-> "CA1", track |-> "None", len |-> 0],
     [event |-> "media", sid |-> "None", track |-> "inbound", len |-> 3200],
     [event |-> "media", sid |-> "None", track |-> "outbound", len |-> 3200],
     [event |-> "stop", sid |-> "None", track |-> "None", len |-> 0]}

\* `except` and `finally` on the locals st
Raised(st, reason) ==
    [st EXCEPT !.pc = "done", !.fault = reason, !.ws_closed = @ + 1]

\* the flush loop on the locals st
Flushed(st, inb, outb, socket) ==
    LET r == FlushLoop(inb, outb, socket, st.sent)
        t == [st EXCEPT !.in_buffer = r.inb, !.out_buffer = r.outb,
                        !.sent = r.log, !.deepgram_socket = socket]
    IN IF r.raised THEN Raised(t, "send") ELSE t

\* one iteration of `while True` on the locals st, for message m of call `who`
\* (connect_to_deepgram succeeding)
HandlerStep(st, m, who) ==
    LET recv == [st EXCEPT !.msgs = @ + 1, !.event = m.event]
    IN IF m.event = "start"
       THEN IF Truthy(m.sid)
            THEN Flushed([recv EXCEPT !.opened = @ + 1],
                         st.in_buffer, st.out_buffer, st.opened + 1)
            ELSE Flushed(recv, st.in_buffer, st.out_buffer, st.deepgram_socket)
       ELSE IF m.event = "media"
       THEN LET off == IF m.track = "inbound" THEN st.in_total
                       ELSE IF m.track = "outbound" THEN st.out_total ELSE 0
                payload == b64decode(B64Encode(CallAudio(who, m.track, off, m.len)))
            IN Flushed([recv EXCEPT
                          !.in_total = IF m.track = "inbound" THEN @ + m.len ELSE @,
                          !.out_total = IF m.track = "outbound" THEN @ + m.len ELSE @],
                       IF ToInbound(m.track) THEN extend(st.in_buffer, payload)
                                             ELSE st.in_buffer,
                       IF ToOutbound(m.track) THEN extend(st.out_buffer, payload)
                                              ELSE st.out_buffer,
                       st.deepgram_socket)
       ELSE IF m.event = "stop"
       THEN [recv EXCEPT
               !.sent = IF st.deepgram_socket # None
                        THEN Append(@, [conn |-> st.deepgram_socket, data |-> <<>>])
                        ELSE @,
               !.pc = "done", !.ws_closed = @ + 1]
       ELSE Flushed(recv, st.in_buffer, st.out_buffer, st.deepgram_socket)

\* in_buffer as a module-level bytearray: the second handler's inbound
\* audio lands in the buffer the first handler reads
PeerStep_shared(m) ==
    /\ peer.pc = "running"
    /\ peer.msgs < MaxPairMsgs
    /\ m.event = "start" => peer.opened < MaxConns
    /\ peer' = HandlerStep(peer, m, 2)
    /\ in_buffer' = IF m.event = "media" /\ m.track = "inbound"
                    THEN extend(in_buffer, CallAudio(2, "inbound", peer.in_total, m.len))
                    ELSE in_buffer
    /\ UNCHANGED <<pc, deepgram_socket, out_buffer, opened, sent, ws_closed, fault,
                   event, msgs, unread, in_total, out_total, mix_vars, tr_vars>>

\* the second handler receives m
PeerStep(m) ==
    /\ peer.pc = "running"
    /\ peer.msgs < MaxPairMsgs
    /\ m.event = "start" => peer.opened < MaxConns
    /\ peer' = HandlerStep(peer, m, 2)
    /\ UNCHANGED <<handler_vars, mix_vars, tr_vars>>

\* the first handler receives a message
FirstStep ==
    /\ msgs < MaxPairMsgs
    /\ \/ StartEvent("CA1")
       \/ MediaEvent("inbound", 3200, TRUE)
       \/ MediaEvent("outbound", 3200, TRUE)
       \/ StopEvent

PairNext ==
    \/ FirstStep
    \/ \E m \in PairMsgs : PeerStep(m)

SpecPair == Init /\ [][PairNext]_vars

-----------------------------------------------------------------------------
(* ActiveCall.get_transcript alone, on the result payloads Deepgram can    *)
(* deliver.  A payload is told by which keys it has: `channel`, its        *)
(* `alternatives` list, and the `transcript` of each alternative ("None"   *)
(* when the key is absent).                                                *)

Transcripts == {"None", "", "hello", "good bye"}

Payloads ==
    [has_channel : BOOLEAN, has_alternatives : BOOLEAN,
     alternatives : UNION {[1..n -> Transcripts] : n \in 0..MaxAlternatives}]

\* data.get('channel', {}).get('alternatives', [{}])
Alternatives(data) ==
    IF data.has_channel /\ data.has_alternatives THEN data.alternatives
    ELSE <<"None">>

TranscriptInit ==
    /\ HandlerInit
    /\ MixIdle
    /\ call_sid \in {"CA1", "CA2"}
    /\ dg_data \in Payloads
    /\ log_lines = <<>>
    /\ tr_pc = "input"

\* get_transcript: [0] of the alternatives, its transcript, logged if truthy
GetTranscript ==
    /\ tr_pc = "input"
    /\ LET alts == Alternatives(dg_data)
       IN IF alts = <<>>
          THEN /\ tr_pc' = "IndexError"
               /\ UNCHANGED log_lines
          ELSE /\ tr_pc' = "returned"
               /\ log_lines' = IF Truthy(alts[1])
                               THEN Append(log_lines, <<call_sid, alts[1]>>)
                               ELSE log_lines
    /\ UNCHANGED <<handler_vars, mix_vars, call_sid, dg_data, peer>>

TranscriptNext == GetTranscript

SpecTranscript == TranscriptInit /\ [][TranscriptNext]_vars

-----------------------------------------------------------------------------
(* What the claims speak of *)

Min(a, b) == IF a <= b THEN a ELSE b

\* the audio segments sent, in the order sent (a terminator is b'')
Frames == SelectSeq(sent, LAMBDA m : Len(m.data) > 0)

NumFrames == Len(Frames)

\* bytes 0, 2, 4, ... of a byte string
EvenIndexed(m) == [k \in 1..((Len(m) + 1) \div 2) |-> m[2*k - 1]]

\* bytes 1, 3, 5, ... of a byte string
OddIndexed(m) == [k \in 1..(Len(m) \div 2) |-> m[2*k]]

RECURSIVE ConcatChannel0(_)
ConcatChannel0(frames) ==
    IF frames = <<>> THEN <<>>
    ELSE EvenIndexed(Head(frames).data) \o ConcatChannel0(Tail(frames))

RECURSIVE ConcatChannel1(_)
ConcatChannel1(frames) ==
    IF frames = <<>> THEN <<>>
    ELSE OddIndexed(Head(frames).data) \o ConcatChannel1(Tail(frames))

\* how many times the zero-length terminator was sent on connection c
Terminators(c) ==
    Cardinality({i \in 1..Len(sent) : sent[i].conn = c /\ sent[i].data = <<>>})

-----------------------------------------------------------------------------
(* C1: once a start has opened a connection, after every event the number  *)
(* of mixed frames sent is floor(min(inbound bytes, outbound bytes)/3200), *)
(* each buffer holds what its track received less 3200 bytes per frame,    *)
(* and one of the buffers is below 3200 bytes.                             *)
C1_ThresholdFlush ==
    opened > 0 =>
        /\ NumFrames = Min(in_total, out_total) \div 3200
        /\ Len(in_buffer) = in_total - 3200 * NumFrames
        /\ Len(out_buffer) = out_total - 3200 * NumFrames
        /\ (Len(in_buffer) < 3200 \/ Len(out_buffer) < 3200)

C1_Witness ==
    /\ opened > 0
    /\ NumFrames = 2
    /\ Len(in_buffer) = 1000
    /\ out_buffer = <<>>

(* C2: the channel-0 bytes of all frames in the order sent, followed by    *)
(* in_buffer, are the inbound stream in arrival order; likewise channel 1, *)
(* out_buffer and the outbound stream.                                     *)
C2_OrderPreservation ==
    /\ ConcatChannel0(Frames) \o in_buffer = in_stream
    /\ ConcatChannel1(Frames) \o out_buffer = out_stream

C2_Witness ==
    /\ NumFrames = 2
    /\ Len(out_buffer) > 0
    /\ Len(in_buffer) < 3200

(* C3: mixing A and B of equal length N gives 2N bytes whose even-indexed  *)
(* bytes are A and whose odd-indexed bytes are B.                          *)
C3_MixingCorrectness ==
    mix_pc = "mixed" =>
        /\ Len(mixed) = 2 * Len(mono_in)
        /\ EvenIndexed(mixed) = mono_in
        /\ OddIndexed(mixed) = mono_out

C3_Witness ==
    /\ mix_pc = "mixed"
    /\ Len(mono_in) >= 2
    /\ mono_in # mono_out
    /\ mono_in[1] # mono_in[2]

(* C4: a message that is not JSON and arrives after a valid media event is *)
(* discarded: the handler is still in its loop, ready for the next media   *)
(* event, and the websocket is not closed.                                 *)
C4_MalformedFrameResilience ==
    (fault = "json" /\ event = "media") => (pc = "running" /\ ws_closed = 0)

(* C5: when connect_to_deepgram fails on start, the handler keeps running. *)
C5_TranscriptionOutage ==
    fault = "connect" => (pc = "running" /\ ws_closed = 0)

(* C6: media received before any successful start leaves both buffers      *)
(* unchanged and never ends the handler.                                   *)
C6_MediaWhileIdleIgnored ==
    opened = 0 =>
        /\ in_buffer = <<>>
        /\ out_buffer = <<>>
        /\ fault # "send"

(* C7: a connection is opened, and deepgram_socket assigned, only by a     *)
(* start event with a non-empty callSid; never by a media event.           *)
C7_OnlyStartConnects ==
    [][(opened' # opened \/ deepgram_socket' # deepgram_socket)
          => StartEvent("CA1")]_vars

C7_Witness ==
    /\ event = "media"
    /\ in_total > 0
    /\ out_total > 0
    /\ opened = 0
    /\ deepgram_socket = None
    /\ pc = "running"

(* C8: when stop has been processed, every connection that was open has    *)
(* received the terminator exactly once.                                   *)
C8_StopClosesOnce ==
    event = "stop" => \A c \in 1..opened : Terminators(c) = 1

(* C9: stop ends the loop and closes the websocket, and from then on       *)
(* nothing is received, buffered, opened or sent.                          *)
C9_NothingAfterStop ==
    /\ [](event = "stop" => (pc = "done" /\ ws_closed = 1))
    /\ [][event = "stop" =>
            UNCHANGED <<pc, deepgram_socket, in_buffer, out_buffer, opened, sent,
                        ws_closed, event, msgs, in_total, out_total>>]_vars

C9_Witness ==
    /\ event = "stop"
    /\ pc = "done"
    /\ unread > 0
    /\ NumFrames > 0

(* C10: a start without callSid, or with an empty one, opens nothing and   *)
(* changes neither deepgram_socket nor the buffers; the loop goes on.      *)
C10_StartWithoutSid ==
    [][(StartEvent("None") \/ StartEvent(""))
          => /\ pc' = "running"
             /\ UNCHANGED <<deepgram_socket, in_buffer, out_buffer, opened, sent,
                            ws_closed, fault>>]_vars

C10_Witness ==
    /\ event = "start"
    /\ opened = 0
    /\ deepgram_socket = None
    /\ pc = "running"
    /\ Len(in_buffer) > 0

\* the connections opened and not yet sent the terminator
OpenConns == {c \in 1..opened : Terminators(c) = 0}

\* the audio segments a step adds to what was sent
NewFrames == SubSeq(Frames', NumFrames + 1, NumFrames')

(* C11: when the loop ends by an exception while a connection is held, the *)
(* terminator has been sent on that connection before the handler returns. *)
C11_FaultClosesTranscription ==
    (pc = "done" /\ fault # "none" /\ deepgram_socket # None)
        => Terminators(deepgram_socket) = 1

(* C12: the websocket is closed exactly once when the handler has          *)
(* returned, whichever way the loop ended, and not before.                 *)
C12_TeardownUnconditional ==
    /\ pc = "done" => ws_closed = 1
    /\ pc = "running" => ws_closed = 0
    /\ fault # "none" => pc = "done"

C12_Witness ==
    /\ pc = "done"
    /\ fault = "send"
    /\ opened = 0
    /\ ws_closed = 1

(* C13: a stop event mixes and sends no audio: the frames sent are those   *)
(* sent before it, the buffers keep their residual, one of them below 3200 *)
(* bytes; start, 1000 inbound bytes, stop sends the terminator only.       *)
C13_ResidualDiscard ==
    /\ [](event = "stop" =>
            /\ Len(in_buffer) < 3200 \/ Len(out_buffer) < 3200
            /\ Len(in_buffer) = in_total - 3200 * NumFrames
            /\ Len(out_buffer) = out_total - 3200 * NumFrames
            /\ (opened = 1 /\ in_total = 1000 /\ out_total = 0)
                   => sent = <<[conn |-> 1, data |-> <<>>]>>)
    /\ [][StopEvent => (Frames' = Frames /\ UNCHANGED <<in_buffer, out_buffer>>)]_vars

C13_Witness ==
    /\ event = "stop"
    /\ opened = 1
    /\ in_total = 1000
    /\ out_total = 0
    /\ Len(in_buffer) = 1000
    /\ NumFrames = 0

(* C14: at most one connection opened by the handler is open at any time.  *)
C14_OneConnection ==
    Cardinality(OpenConns) <= 1

(* C15: every audio segment sent is 6400 bytes long, its channels the next *)
(* 3200 bytes of each track; start, 3200 inbound bytes, 3200 outbound      *)
(* bytes, stop sends exactly one segment and then the terminator.          *)
C15_FixedLengthSegments ==
    /\ \A k \in 1..NumFrames :
          /\ Len(Frames[k].data) = 6400
          /\ EvenIndexed(Frames[k].data) = SubSeq(in_stream, 3200 * (k - 1) + 1, 3200 * k)
          /\ OddIndexed(Frames[k].data) = SubSeq(out_stream, 3200 * (k - 1) + 1, 3200 * k)
    /\ (event = "stop" /\ opened = 1 /\ in_total = 3200 /\ out_total = 3200)
          => /\ Len(sent) = 2
             /\ Len(sent[1].data) = 6400
             /\ sent[2] = [conn |-> 1, data |-> <<>>]
             /\ sent[1].conn = 1

C15_Witness ==
    /\ event = "stop"
    /\ opened = 1
    /\ in_total = 3200
    /\ out_total = 3200
    /\ msgs = 4
    /\ Len(sent) = 2

\* the payload has a non-empty transcript in the first alternative of its channel
HasTranscript ==
    /\ dg_data.has_channel
    /\ dg_data.has_alternatives
    /\ Len(dg_data.alternatives) > 0
    /\ dg_data.alternatives[1] \notin {"None", ""}

(* C16: get_transcript returns without an error for every payload, having  *)
(* logged one line with the call's sid and the transcript when the first   *)
(* alternative has a non-empty transcript, and nothing otherwise.          *)
C16_TranscriptLogged ==
    tr_pc # "input" =>
        /\ tr_pc = "returned"
        /\ log_lines = IF HasTranscript
                       THEN <<(<<call_sid, dg_data.alternatives[1]>>)>>
                       ELSE <<>>

(* C17: with two handlers running, a step of one leaves the locals of the  *)
(* other unchanged, and each step takes the handler's own locals to what   *)
(* the handler running alone gets from them for one of its own messages.   *)
C17_SessionIndependence ==
    [][/\ peer' # peer => UNCHANGED handler_vars
       /\ handler_vars' # handler_vars =>
             /\ peer' = peer
             /\ \/ \E m \in PairMsgs :
                      /\ m.event = event'
                      /\ m.track = "inbound" <=> in_total' # in_total
                      /\ HandlerState' = HandlerStep(HandlerState, m, 1)
                \/ (fault' = "connect" /\ HandlerState' =
                       Raised([HandlerState EXCEPT !.msgs = @ + 1, !.event = "start"],
                              "connect"))]_vars

C17_Witness ==
    /\ NumFrames = 1
    /\ Len(peer.sent) = 1
    /\ Len(peer.sent[1].data) = 6400
    /\ peer.sent[1].data # sent[1].data
    /\ pc = "running"
    /\ peer.pc = "running"

(* C18: a stop received while no connection was ever opened sends nothing, *)
(* raises nothing and ends the loop.                                       *)
C18_StopWhileIdle ==
    (event = "stop" /\ opened = 0)
        => /\ sent = <<>>
           /\ fault = "none"
           /\ pc = "done"
           /\ ws_closed = 1

C18_Witness ==
    /\ event = "stop"
    /\ opened = 0
    /\ deepgram_socket = None
    /\ pc = "done"
    /\ in_total > 0

(* C19: on every connection the terminator, once sent, is the last thing   *)
(* sent: no audio segment and no second terminator follows it.             *)
C19_TerminatorLast ==
    \A i \in 1..Len(sent) : \A j \in 1..Len(sent) :
        (i < j /\ sent[i].data = <<>>) => sent[j].conn # sent[i].conn

C19_Witness ==
    /\ NumFrames = 1
    /\ Len(sent) = 2
    /\ sent[2].data = <<>>
    /\ sent[2].conn = sent[1].conn

(* C20: a media step of the inbound track puts its payload at the end of   *)
(* in_buffer and adds nothing to out_buffer (the flush then takes the      *)
(* frames it sends from the front of both); likewise outbound; a media     *)
(* step of another track leaves both buffers and the send log unchanged.   *)
C20_MediaRouting ==
    [][(event' = "media" /\ msgs' = msgs + 1 /\ fault' # "b64decode") =>
          /\ ConcatChannel0(NewFrames) \o in_buffer'
                = in_buffer \o Audio("inbound", in_total, in_total' - in_total)
          /\ ConcatChannel1(NewFrames) \o out_buffer'
                = out_buffer \o Audio("outbound", out_total, out_total' - out_total)
          /\ (in_total' = in_total \/ out_total' = out_total)
          /\ (in_total' = in_total /\ out_total' = out_total)
                => UNCHANGED <<in_buffer, out_buffer, sent>>]_vars

C20_Witness ==
    /\ event = "media"
    /\ msgs = 1
    /\ in_total = 0
    /\ out_total = 0
    /\ fault = "none"
    /\ pc = "running"

====
